---------------------------- MODULE Spec2Model ----------------------------
(***************************************************************************)
(* Shortint cryptographic parameters (tfhe/src/shortint/parameters/mod.rs):*)
(* the parameter records, the ShortintParameterSet handle with its         *)
(* validated constructor, the EncryptionKeyChoice -> PBSOrder conversion   *)
(* and the resolver get_parameters_from_message_and_carry.                 *)
(*                                                                         *)
(* Spec drives the handle API and the key-choice conversion in any order.  *)
(* SpecResolver draws the arguments of one resolver call and the build     *)
(* profile in its initial state and runs the call statement by statement.  *)
(* SpecPresets wraps each named parameter set in a handle and reads it.    *)
(* SpecRepeat runs resolver calls one after the other with handle calls in *)
(* between.  SpecThreads interleaves the calls of concurrent callers on    *)
(* one handle.                                                             *)
(***************************************************************************)
EXTENDS Integers, Naturals, Sequences, FiniteSets, TLC

VARIABLES
    handle,       \* the ShortintParameterSet the latest constructing call yielded, or NoHandle
    built_by,     \* name of the operation that produced `handle`
    built_from,   \* arguments of the operation that produced `handle`
    last,         \* the latest call of the handle API: operation, arguments, result
    pc,           \* resolver: position in get_parameters_from_message_and_carry
    overflow_checks, \* resolver: TRUE for a build with overflow checks (debug profile)
    msg_space,    \* resolver: argument
    carry_space,  \* resolver: argument
    rescaled_message_space, \* resolver: local
    rescaled_carry_space,   \* resolver: local
    out,          \* resolver: local, the record returned
    flag,         \* resolver: local
    stdout,       \* resolver: lines printed by the call
    earlier,      \* repeated calls: an earlier completed resolver call, or NoEarlier
    threads       \* concurrent callers: each caller's call, position and locals

hvars == <<handle, built_by, built_from, last>>
rvars == <<pc, overflow_checks, msg_space, carry_space, rescaled_message_space,
           rescaled_carry_space, out, flag, stdout>>
cvars == <<earlier, threads>>
vars == <<handle, built_by, built_from, last, pc, overflow_checks, msg_space,
          carry_space, rescaled_message_space, rescaled_carry_space, out, flag,
          stdout, earlier, threads>>

---------------------------------------------------------------------------
(* Scalar types *)

\* enum EncryptionKeyChoice { Big, Small }
Big == "Big"
Small == "Small"
EncryptionKeyChoice == {Big, Small}

\* The two variants of PBSOrder that the conversion names.
KeyswitchBootstrap == "KeyswitchBootstrap"
BootstrapKeyswitch == "BootstrapKeyswitch"

\* impl From<EncryptionKeyChoice> for PBSOrder
PBSOrderFrom(value) ==
    CASE value = Big -> KeyswitchBootstrap
      [] value = Small -> BootstrapKeyswitch

\* The order the doc comment of EncryptionKeyChoice describes for each choice:
\* Big: "the PBS is computed first followed by a keyswitch";
\* Small: "the keyswitch is computed first followed by a PBS".
DocumentedOrder(value) ==
    CASE value = Big -> BootstrapKeyswitch
      [] value = Small -> KeyswitchBootstrap

\* CiphertextModulus::new_native(): the native modulus 2^64 of u64.
new_native == "native"

\* The fields of PBSParameters; the accessors of ShortintParameterSet read the
\* same thirteen fields of WopbsParameters.
FieldNames ==
    { "lwe_dimension", "glwe_dimension", "polynomial_size", "lwe_modular_std_dev",
      "glwe_modular_std_dev", "pbs_base_log", "pbs_level", "ks_base_log",
      "ks_level", "message_modulus", "carry_modulus", "ciphertext_modulus",
      "encryption_key_choice" }

---------------------------------------------------------------------------
(* The named parameter sets.  A StandardDev is kept as its decimal literal. *)

PARAM_MESSAGE_1_CARRY_0 ==
    [ lwe_dimension |-> 678,
      glwe_dimension |-> 5,
      polynomial_size |-> 256,
      lwe_modular_std_dev |-> "0.000022810107419132102",
      glwe_modular_std_dev |-> "0.00000000037411618952047216",
      pbs_base_log |-> 15,
      pbs_level |-> 1,
      ks_base_log |-> 5,
      ks_level |-> 2,
      message_modulus |-> 2,
      carry_modulus |-> 1,
      ciphertext_modulus |-> new_native,
      encryption_key_choice |-> Big ]

PARAM_MESSAGE_1_CARRY_1 ==
    [ lwe_dimension |-> 684,
      glwe_dimension |-> 3,
      polynomial_size |-> 512,
      lwe_modular_std_dev |-> "0.00002043784477291318",
      glwe_modular_std_dev |-> "0.0000000000034525330484572114",
      pbs_base_log |-> 18,
      pbs_level |-> 1,
      ks_base_log |-> 4,
      ks_level |-> 3,
      message_modulus |-> 2,
      carry_modulus |-> 2,
      ciphertext_modulus |-> new_native,
      encryption_key_choice |-> Big ]

PARAM_MESSAGE_2_CARRY_0 ==
    [ lwe_dimension |-> 656,
      glwe_dimension |-> 2,
      polynomial_size |-> 512,
      lwe_modular_std_dev |-> "0.000034119201269311964",
      glwe_modular_std_dev |-> "0.00000004053919869756513",
      pbs_base_log |-> 8,
      pbs_level |-> 2,
      ks_base_log |-> 3,
      ks_level |-> 4,
      message_modulus |-> 4,
      carry_modulus |-> 1,
      ciphertext_modulus |-> new_native,
      encryption_key_choice |-> Big ]

PARAM_MESSAGE_1_CARRY_2 ==
    [ lwe_dimension |-> 742,
      glwe_dimension |-> 2,
      polynomial_size |-> 1024,
      lwe_modular_std_dev |-> "0.000007069849454709433",
      glwe_modular_std_dev |-> "0.00000000000000029403601535432533",
      pbs_base_log |-> 23,
      pbs_level |-> 1,
      ks_base_log |-> 4,
      ks_level |-> 3,
      message_modulus |-> 2,
      carry_modulus |-> 4,
      ciphertext_modulus |-> new_native,
      encryption_key_choice |-> Big ]

PARAM_MESSAGE_2_CARRY_1 ==
    [ lwe_dimension |-> 742,
      glwe_dimension |-> 2,
      polynomial_size |-> 1024,
      lwe_modular_std_dev |-> "0.000007069849454709433",
      glwe_modular_std_dev |-> "0.00000000000000029403601535432533",
      pbs_base_log |-> 23,
      pbs_level |-> 1,
      ks_base_log |-> 4,
      ks_level |-> 3,
      message_modulus |-> 4,
      carry_modulus |-> 2,
      ciphertext_modulus |-> new_native,
      encryption_key_choice |-> Big ]

PARAM_MESSAGE_3_CARRY_0 ==
    [ lwe_dimension |-> 742,
      glwe_dimension |-> 2,
      polynomial_size |-> 1024,
      lwe_modular_std_dev |-> "0.000007069849454709433",
      glwe_modular_std_dev |-> "0.00000000000000029403601535432533",
      pbs_base_log |-> 23,
      pbs_level |-> 1,
      ks_base_log |-> 4,
      ks_level |-> 3,
      message_modulus |-> 8,
      carry_modulus |-> 1,
      ciphertext_modulus |-> new_native,
      encryption_key_choice |-> Big ]

PARAM_MESSAGE_1_CARRY_3 ==
    [ lwe_dimension |-> 745,
      glwe_dimension |-> 1,
      polynomial_size |-> 2048,
      lwe_modular_std_dev |-> "0.000006692125069956277",
      glwe_modular_std_dev |-> "0.00000000000000029403601535432533",
      pbs_base_log |-> 23,
      pbs_level |-> 1,
      ks_base_log |-> 3,
      ks_level |-> 5,
      message_modulus |-> 2,
      carry_modulus |-> 8,
      ciphertext_modulus |-> new_native,
      encryption_key_choice |-> Big ]

PARAM_MESSAGE_2_CARRY_2 ==
    [ lwe_dimension |-> 742,
      glwe_dimension |-> 1,
      polynomial_size |-> 2048,
      lwe_modular_std_dev |-> "0.000007069849454709433",
      glwe_modular_std_dev |-> "0.00000000000000029403601535432533",
      pbs_base_log |-> 23,
      pbs_level |-> 1,
      ks_base_log |-> 3,
      ks_level |-> 5,
      message_modulus |-> 4,
      carry_modulus |-> 4,
      ciphertext_modulus |-> new_native,
      encryption_key_choice |-> Big ]

PARAM_MESSAGE_3_CARRY_1 ==
    [ lwe_dimension |-> 742,
      glwe_dimension |-> 1,
      polynomial_size |-> 2048,
      lwe_modular_std_dev |-> "0.000007069849454709433",
      glwe_modular_std_dev |-> "0.00000000000000029403601535432533",
      pbs_base_log |-> 23,
      pbs_level |-> 1,
      ks_base_log |-> 3,
      ks_level |-> 5,
      message_modulus |-> 8,
      carry_modulus |-> 2,
      ciphertext_modulus |-> new_native,
      encryption_key_choice |-> Big ]

PARAM_MESSAGE_4_CARRY_0 ==
    [ lwe_dimension |-> 742,
      glwe_dimension |-> 1,
      polynomial_size |-> 2048,
      lwe_modular_std_dev |-> "0.000007069849454709433",
      glwe_modular_std_dev |-> "0.00000000000000029403601535432533",
      pbs_base_log |-> 23,
      pbs_level |-> 1,
      ks_base_log |-> 3,
      ks_level |-> 5,
      message_modulus |-> 16,
      carry_modulus |-> 1,
      ciphertext_modulus |-> new_native,
      encryption_key_choice |-> Big ]

PARAM_MESSAGE_1_CARRY_4 ==
    [ lwe_dimension |-> 807,
      glwe_dimension |-> 1,
      polynomial_size |-> 4096,
      lwe_modular_std_dev |-> "0.0000021515145918907506",
      glwe_modular_std_dev |-> "0.0000000000000000002168404344971009",
      pbs_base_log |-> 15,
      pbs_level |-> 2,
      ks_base_log |-> 3,
      ks_level |-> 5,
      message_modulus |-> 2,
      carry_modulus |-> 16,
      ciphertext_modulus |-> new_native,
      encryption_key_choice |-> Big ]

PARAM_MESSAGE_2_CARRY_3 ==
    [ lwe_dimension |-> 856,
      glwe_dimension |-> 1,
      polynomial_size |-> 4096,
      lwe_modular_std_dev |-> "0.0000008775214009854235",
      glwe_modular_std_dev |-> "0.0000000000000000002168404344971009",
      pbs_base_log |-> 22,
      pbs_level |-> 1,
      ks_base_log |-> 3,
      ks_level |-> 6,
      message_modulus |-> 4,
      carry_modulus |-> 8,
      ciphertext_modulus |-> new_native,
      encryption_key_choice |-> Big ]

PARAM_MESSAGE_3_CARRY_2 ==
    [ lwe_dimension |-> 812,
      glwe_dimension |-> 1,
      polynomial_size |-> 4096,
      lwe_modular_std_dev |-> "0.0000019633637461248447",
      glwe_modular_std_dev |-> "0.0000000000000000002168404344971009",
      pbs_base_log |-> 22,
      pbs_level |-> 1,
      ks_base_log |-> 3,
      ks_level |-> 5,
      message_modulus |-> 8,
      carry_modulus |-> 4,
      ciphertext_modulus |-> new_native,
      encryption_key_choice |-> Big ]

PARAM_MESSAGE_4_CARRY_1 ==
    [ lwe_dimension |-> 808,
      glwe_dimension |-> 1,
      polynomial_size |-> 4096,
      lwe_modular_std_dev |-> "0.0000021124945159091033",
      glwe_modular_std_dev |-> "0.0000000000000000002168404344971009",
      pbs_base_log |-> 22,
      pbs_level |-> 1,
      ks_base_log |-> 3,
      ks_level |-> 5,
      message_modulus |-> 16,
      carry_modulus |-> 2,
      ciphertext_modulus |-> new_native,
      encryption_key_choice |-> Big ]

PARAM_MESSAGE_5_CARRY_0 ==
    [ lwe_dimension |-> 807,
      glwe_dimension |-> 1,
      polynomial_size |-> 4096,
      lwe_modular_std_dev |-> "0.0000021515145918907506",
      glwe_modular_std_dev |-> "0.0000000000000000002168404344971009",
      pbs_base_log |-> 22,
      pbs_level |-> 1,
      ks_base_log |-> 3,
      ks_level |-> 5,
      message_modulus |-> 32,
      carry_modulus |-> 1,
      ciphertext_modulus |-> new_native,
      encryption_key_choice |-> Big ]

PARAM_MESSAGE_1_CARRY_5 ==
    [ lwe_dimension |-> 864,
      glwe_dimension |-> 1,
      polynomial_size |-> 8192,
      lwe_modular_std_dev |-> "0.000000757998020150446",
      glwe_modular_std_dev |-> "0.0000000000000000002168404344971009",
      pbs_base_log |-> 15,
      pbs_level |-> 2,
      ks_base_log |-> 3,
      ks_level |-> 6,
      message_modulus |-> 2,
      carry_modulus |-> 32,
      ciphertext_modulus |-> new_native,
      encryption_key_choice |-> Big ]

PARAM_MESSAGE_2_CARRY_4 ==
    [ lwe_dimension |-> 864,
      glwe_dimension |-> 1,
      polynomial_size |-> 8192,
      lwe_modular_std_dev |-> "0.000000757998020150446",
      glwe_modular_std_dev |-> "0.0000000000000000002168404344971009",
      pbs_base_log |-> 15,
      pbs_level |-> 2,
      ks_base_log |-> 3,
      ks_level |-> 6,
      message_modulus |-> 4,
      carry_modulus |-> 16,
      ciphertext_modulus |-> new_native,
      encryption_key_choice |-> Big ]

PARAM_MESSAGE_3_CARRY_3 ==
    [ lwe_dimension |-> 864,
      glwe_dimension |-> 1,
      polynomial_size |-> 8192,
      lwe_modular_std_dev |-> "0.000000757998020150446",
      glwe_modular_std_dev |-> "0.0000000000000000002168404344971009",
      pbs_base_log |-> 15,
      pbs_level |-> 2,
      ks_base_log |-> 3,
      ks_level |-> 6,
      message_modulus |-> 8,
      carry_modulus |-> 8,
      ciphertext_modulus |-> new_native,
      encryption_key_choice |-> Big ]

PARAM_MESSAGE_4_CARRY_2 ==
    [ lwe_dimension |-> 864,
      glwe_dimension |-> 1,
      polynomial_size |-> 8192,
      lwe_modular_std_dev |-> "0.000000757998020150446",
      glwe_modular_std_dev |-> "0.0000000000000000002168404344971009",
      pbs_base_log |-> 15,
      pbs_level |-> 2,
      ks_base_log |-> 3,
      ks_level |-> 6,
      message_modulus |-> 16,
      carry_modulus |-> 4,
      ciphertext_modulus |-> new_native,
      encryption_key_choice |-> Big ]

PARAM_MESSAGE_5_CARRY_1 ==
    [ lwe_dimension |-> 875,
      glwe_dimension |-> 1,
      polynomial_size |-> 8192,
      lwe_modular_std_dev |-> "0.0000006197725091905067",
      glwe_modular_std_dev |-> "0.0000000000000000002168404344971009",
      pbs_base_log |-> 22,
      pbs_level |-> 1,
      ks_base_log |-> 3,
      ks_level |-> 6,
      message_modulus |-> 32,
      carry_modulus |-> 2,
      ciphertext_modulus |-> new_native,
      encryption_key_choice |-> Big ]

PARAM_MESSAGE_6_CARRY_0 ==
    [ lwe_dimension |-> 915,
      glwe_dimension |-> 1,
      polynomial_size |-> 8192,
      lwe_modular_std_dev |-> "0.00000029804653749339636",
      glwe_modular_std_dev |-> "0.0000000000000000002168404344971009",
      pbs_base_log |-> 22,
      pbs_level |-> 1,
      ks_base_log |-> 4,
      ks_level |-> 4,
      message_modulus |-> 64,
      carry_modulus |-> 1,
      ciphertext_modulus |-> new_native,
      encryption_key_choice |-> Big ]

PARAM_MESSAGE_1_CARRY_6 ==
    [ lwe_dimension |-> 930,
      glwe_dimension |-> 1,
      polynomial_size |-> 16384,
      lwe_modular_std_dev |-> "0.00000022649232786295453",
      glwe_modular_std_dev |-> "0.0000000000000000002168404344971009",
      pbs_base_log |-> 11,
      pbs_level |-> 3,
      ks_base_log |-> 3,
      ks_level |-> 6,
      message_modulus |-> 2,
      carry_modulus |-> 64,
      ciphertext_modulus |-> new_native,
      encryption_key_choice |-> Big ]

PARAM_MESSAGE_2_CARRY_5 ==
    [ lwe_dimension |-> 934,
      glwe_dimension |-> 1,
      polynomial_size |-> 16384,
      lwe_modular_std_dev |-> "0.00000021050318566634375",
      glwe_modular_std_dev |-> "0.0000000000000000002168404344971009",
      pbs_base_log |-> 15,
      pbs_level |-> 2,
      ks_base_log |-> 3,
      ks_level |-> 6,
      message_modulus |-> 4,
      carry_modulus |-> 32,
      ciphertext_modulus |-> new_native,
      encryption_key_choice |-> Big ]

PARAM_MESSAGE_3_CARRY_4 ==
    [ lwe_dimension |-> 930,
      glwe_dimension |-> 1,
      polynomial_size |-> 16384,
      lwe_modular_std_dev |-> "0.00000022649232786295453",
      glwe_modular_std_dev |-> "0.0000000000000000002168404344971009",
      pbs_base_log |-> 15,
      pbs_level |-> 2,
      ks_base_log |-> 3,
      ks_level |-> 6,
      message_modulus |-> 8,
      carry_modulus |-> 16,
      ciphertext_modulus |-> new_native,
      encryption_key_choice |-> Big ]

PARAM_MESSAGE_4_CARRY_3 ==
    [ lwe_dimension |-> 930,
      glwe_dimension |-> 1,
      polynomial_size |-> 16384,
      lwe_modular_std_dev |-> "0.00000022649232786295453",
      glwe_modular_std_dev |-> "0.0000000000000000002168404344971009",
      pbs_base_log |-> 15,
      pbs_level |-> 2,
      ks_base_log |-> 3,
      ks_level |-> 6,
      message_modulus |-> 16,
      carry_modulus |-> 8,
      ciphertext_modulus |-> new_native,
      encryption_key_choice |-> Big ]

PARAM_MESSAGE_5_CARRY_2 ==
    [ lwe_dimension |-> 930,
      glwe_dimension |-> 1,
      polynomial_size |-> 16384,
      lwe_modular_std_dev |-> "0.00000022649232786295453",
      glwe_modular_std_dev |-> "0.0000000000000000002168404344971009",
      pbs_base_log |-> 15,
      pbs_level |-> 2,
      ks_base_log |-> 3,
      ks_level |-> 6,
      message_modulus |-> 32,
      carry_modulus |-> 4,
      ciphertext_modulus |-> new_native,
      encryption_key_choice |-> Big ]

PARAM_MESSAGE_6_CARRY_1 ==
    [ lwe_dimension |-> 930,
      glwe_dimension |-> 1,
      polynomial_size |-> 16384,
      lwe_modular_std_dev |-> "0.00000022649232786295453",
      glwe_modular_std_dev |-> "0.0000000000000000002168404344971009",
      pbs_base_log |-> 15,
      pbs_level |-> 2,
      ks_base_log |-> 3,
      ks_level |-> 6,
      message_modulus |-> 64,
      carry_modulus |-> 2,
      ciphertext_modulus |-> new_native,
      encryption_key_choice |-> Big ]

PARAM_MESSAGE_7_CARRY_0 ==
    [ lwe_dimension |-> 930,
      glwe_dimension |-> 1,
      polynomial_size |-> 16384,
      lwe_modular_std_dev |-> "0.00000022649232786295453",
      glwe_modular_std_dev |-> "0.0000000000000000002168404344971009",
      pbs_base_log |-> 15,
      pbs_level |-> 2,
      ks_base_log |-> 3,
      ks_level |-> 6,
      message_modulus |-> 128,
      carry_modulus |-> 1,
      ciphertext_modulus |-> new_native,
      encryption_key_choice |-> Big ]

PARAM_MESSAGE_1_CARRY_7 ==
    [ lwe_dimension |-> 1004,
      glwe_dimension |-> 1,
      polynomial_size |-> 32768,
      lwe_modular_std_dev |-> "0.00000005845871624688967",
      glwe_modular_std_dev |-> "0.0000000000000000002168404344971009",
      pbs_base_log |-> 11,
      pbs_level |-> 3,
      ks_base_log |-> 3,
      ks_level |-> 7,
      message_modulus |-> 2,
      carry_modulus |-> 128,
      ciphertext_modulus |-> new_native,
      encryption_key_choice |-> Big ]

PARAM_MESSAGE_2_CARRY_6 ==
    [ lwe_dimension |-> 987,
      glwe_dimension |-> 1,
      polynomial_size |-> 32768,
      lwe_modular_std_dev |-> "0.00000007979529246348835",
      glwe_modular_std_dev |-> "0.0000000000000000002168404344971009",
      pbs_base_log |-> 11,
      pbs_level |-> 3,
      ks_base_log |-> 3,
      ks_level |-> 7,
      message_modulus |-> 4,
      carry_modulus |-> 64,
      ciphertext_modulus |-> new_native,
      encryption_key_choice |-> Big ]

PARAM_MESSAGE_3_CARRY_5 ==
    [ lwe_dimension |-> 985,
      glwe_dimension |-> 1,
      polynomial_size |-> 32768,
      lwe_modular_std_dev |-> "0.00000008277032914509569",
      glwe_modular_std_dev |-> "0.0000000000000000002168404344971009",
      pbs_base_log |-> 11,
      pbs_level |-> 3,
      ks_base_log |-> 3,
      ks_level |-> 7,
      message_modulus |-> 8,
      carry_modulus |-> 32,
      ciphertext_modulus |-> new_native,
      encryption_key_choice |-> Big ]

PARAM_MESSAGE_4_CARRY_4 ==
    [ lwe_dimension |-> 996,
      glwe_dimension |-> 1,
      polynomial_size |-> 32768,
      lwe_modular_std_dev |-> "0.00000006767666038309478",
      glwe_modular_std_dev |-> "0.0000000000000000002168404344971009",
      pbs_base_log |-> 15,
      pbs_level |-> 2,
      ks_base_log |-> 3,
      ks_level |-> 7,
      message_modulus |-> 16,
      carry_modulus |-> 16,
      ciphertext_modulus |-> new_native,
      encryption_key_choice |-> Big ]

PARAM_MESSAGE_5_CARRY_3 ==
    [ lwe_dimension |-> 1020,
      glwe_dimension |-> 1,
      polynomial_size |-> 32768,
      lwe_modular_std_dev |-> "0.000000043618425315728666",
      glwe_modular_std_dev |-> "0.0000000000000000002168404344971009",
      pbs_base_log |-> 15,
      pbs_level |-> 2,
      ks_base_log |-> 4,
      ks_level |-> 5,
      message_modulus |-> 32,
      carry_modulus |-> 8,
      ciphertext_modulus |-> new_native,
      encryption_key_choice |-> Big ]

PARAM_MESSAGE_6_CARRY_2 ==
    [ lwe_dimension |-> 1018,
      glwe_dimension |-> 1,
      polynomial_size |-> 32768,
      lwe_modular_std_dev |-> "0.000000045244666805696514",
      glwe_modular_std_dev |-> "0.0000000000000000002168404344971009",
      pbs_base_log |-> 15,
      pbs_level |-> 2,
      ks_base_log |-> 4,
      ks_level |-> 5,
      message_modulus |-> 64,
      carry_modulus |-> 4,
      ciphertext_modulus |-> new_native,
      encryption_key_choice |-> Big ]

PARAM_MESSAGE_7_CARRY_1 ==
    [ lwe_dimension |-> 1017,
      glwe_dimension |-> 1,
      polynomial_size |-> 32768,
      lwe_modular_std_dev |-> "0.0000000460803851108693",
      glwe_modular_std_dev |-> "0.0000000000000000002168404344971009",
      pbs_base_log |-> 15,
      pbs_level |-> 2,
      ks_base_log |-> 4,
      ks_level |-> 5,
      message_modulus |-> 128,
      carry_modulus |-> 2,
      ciphertext_modulus |-> new_native,
      encryption_key_choice |-> Big ]

PARAM_MESSAGE_8_CARRY_0 ==
    [ lwe_dimension |-> 1017,
      glwe_dimension |-> 1,
      polynomial_size |-> 32768,
      lwe_modular_std_dev |-> "0.0000000460803851108693",
      glwe_modular_std_dev |-> "0.0000000000000000002168404344971009",
      pbs_base_log |-> 15,
      pbs_level |-> 2,
      ks_base_log |-> 4,
      ks_level |-> 5,
      message_modulus |-> 256,
      carry_modulus |-> 1,
      ciphertext_modulus |-> new_native,
      encryption_key_choice |-> Big ]

PARAM_SMALL_MESSAGE_1_CARRY_1 ==
    [ lwe_dimension |-> 783,
      glwe_dimension |-> 3,
      polynomial_size |-> 512,
      lwe_modular_std_dev |-> "0.0000033382067621812462",
      glwe_modular_std_dev |-> "0.0000000000034525330484572114",
      pbs_base_log |-> 18,
      pbs_level |-> 1,
      ks_base_log |-> 5,
      ks_level |-> 3,
      message_modulus |-> 2,
      carry_modulus |-> 2,
      ciphertext_modulus |-> new_native,
      encryption_key_choice |-> Small ]

PARAM_SMALL_MESSAGE_2_CARRY_2 ==
    [ lwe_dimension |-> 870,
      glwe_dimension |-> 1,
      polynomial_size |-> 2048,
      lwe_modular_std_dev |-> "0.0000006791658447437413",
      glwe_modular_std_dev |-> "0.00000000000000029403601535432533",
      pbs_base_log |-> 23,
      pbs_level |-> 1,
      ks_base_log |-> 4,
      ks_level |-> 4,
      message_modulus |-> 4,
      carry_modulus |-> 4,
      ciphertext_modulus |-> new_native,
      encryption_key_choice |-> Small ]

PARAM_SMALL_MESSAGE_3_CARRY_3 ==
    [ lwe_dimension |-> 1025,
      glwe_dimension |-> 1,
      polynomial_size |-> 8192,
      lwe_modular_std_dev |-> "0.00000003980397588319241",
      glwe_modular_std_dev |-> "0.0000000000000000002168404344971009",
      pbs_base_log |-> 15,
      pbs_level |-> 2,
      ks_base_log |-> 4,
      ks_level |-> 5,
      message_modulus |-> 8,
      carry_modulus |-> 8,
      ciphertext_modulus |-> new_native,
      encryption_key_choice |-> Small ]

\* Variant of the constant with the carry modulus of a 3-bit carry.
PARAM_SMALL_MESSAGE_4_CARRY_4_carry_3_bits ==
    [ lwe_dimension |-> 1214,
      glwe_dimension |-> 1,
      polynomial_size |-> 32768,
      lwe_modular_std_dev |-> "0.0000000012520482863081104",
      glwe_modular_std_dev |-> "0.0000000000000000002168404344971009",
      pbs_base_log |-> 15,
      pbs_level |-> 2,
      ks_base_log |-> 4,
      ks_level |-> 6,
      message_modulus |-> 16,
      carry_modulus |-> 8,
      ciphertext_modulus |-> new_native,
      encryption_key_choice |-> Small ]

PARAM_SMALL_MESSAGE_4_CARRY_4 ==
    [ lwe_dimension |-> 1214,
      glwe_dimension |-> 1,
      polynomial_size |-> 32768,
      lwe_modular_std_dev |-> "0.0000000012520482863081104",
      glwe_modular_std_dev |-> "0.0000000000000000002168404344971009",
      pbs_base_log |-> 15,
      pbs_level |-> 2,
      ks_base_log |-> 4,
      ks_level |-> 6,
      message_modulus |-> 16,
      carry_modulus |-> 16,
      ciphertext_modulus |-> new_native,
      encryption_key_choice |-> Small ]

\* ALL_PARAMETER_VEC is defined as WITH_CARRY_PARAMETERS_VEC.
WITH_CARRY_PARAMETERS_VEC ==
    << PARAM_MESSAGE_1_CARRY_1, PARAM_MESSAGE_1_CARRY_2, PARAM_MESSAGE_1_CARRY_3,
       PARAM_MESSAGE_1_CARRY_4, PARAM_MESSAGE_1_CARRY_5, PARAM_MESSAGE_1_CARRY_6,
       PARAM_MESSAGE_1_CARRY_7, PARAM_MESSAGE_2_CARRY_1, PARAM_MESSAGE_2_CARRY_2,
       PARAM_MESSAGE_2_CARRY_3, PARAM_MESSAGE_2_CARRY_4, PARAM_MESSAGE_2_CARRY_5,
       PARAM_MESSAGE_2_CARRY_6, PARAM_MESSAGE_3_CARRY_1, PARAM_MESSAGE_3_CARRY_2,
       PARAM_MESSAGE_3_CARRY_3, PARAM_MESSAGE_3_CARRY_4, PARAM_MESSAGE_3_CARRY_5,
       PARAM_MESSAGE_4_CARRY_1, PARAM_MESSAGE_4_CARRY_2, PARAM_MESSAGE_4_CARRY_3,
       PARAM_MESSAGE_4_CARRY_4, PARAM_MESSAGE_5_CARRY_1, PARAM_MESSAGE_5_CARRY_2,
       PARAM_MESSAGE_5_CARRY_3, PARAM_MESSAGE_6_CARRY_1, PARAM_MESSAGE_6_CARRY_2,
       PARAM_MESSAGE_7_CARRY_1 >>

\* Variant of the catalog that lacks the preset the resolver starts from.
ALL_PARAMETER_VEC_without_default ==
    SelectSeq(WITH_CARRY_PARAMETERS_VEC, LAMBDA p : p # PARAM_MESSAGE_2_CARRY_2)

ALL_PARAMETER_VEC == WITH_CARRY_PARAMETERS_VEC

---------------------------------------------------------------------------
(* ShortintParameterSet *)

\* enum ShortintParameterSetInner
PBSOnly(params) == [tag |-> "PBSOnly", pbs |-> params]
WopbsOnly(params) == [tag |-> "WopbsOnly", wopbs |-> params]
PBSAndWopbs(pbs_params, wopbs_params) ==
    [tag |-> "PBSAndWopbs", pbs |-> pbs_params, wopbs |-> wopbs_params]

\* struct ShortintParameterSet { inner }
ShortintParameterSet(inner) == [inner |-> inner]

\* Result and Option values
Ok(v) == [ok |-> TRUE, val |-> v]
Err(e) == [ok |-> FALSE, err |-> e]
Some(v) == [some |-> TRUE, val |-> v]
None == [some |-> FALSE]

\* The &'static str of the Err of try_new_pbs_and_wopbs_param_set.
IncompatibleMsg ==
    "Incompatible PBSParameters and WopbsParameters, this may be due to mismatched carry moduli, message moduli, ciphertext moduli or encryption key choices"

\* Variant of the constructor that stores the keyswitch level count as the
\* bootstrap level count.
new_pbs_param_set_level_mixed(params) ==
    ShortintParameterSet(PBSOnly([params EXCEPT !.pbs_level = params.ks_level]))

new_pbs_param_set(params) == ShortintParameterSet(PBSOnly(params))

new_wopbs_param_set(params) == ShortintParameterSet(WopbsOnly(params))

\* Variant of the constructor that does not compare the key choices.
try_new_without_key_choice_check(pbs_params, wopbs_params) ==
    IF \/ pbs_params.carry_modulus # wopbs_params.carry_modulus
       \/ pbs_params.message_modulus # wopbs_params.message_modulus
       \/ pbs_params.ciphertext_modulus # wopbs_params.ciphertext_modulus
    THEN Err(IncompatibleMsg)
    ELSE Ok(ShortintParameterSet(PBSAndWopbs(pbs_params, wopbs_params)))

\* Variant of the constructor whose error names the fields that differ.
try_new_naming_mismatch(pbs_params, wopbs_params) ==
    IF \/ pbs_params.carry_modulus # wopbs_params.carry_modulus
       \/ pbs_params.message_modulus # wopbs_params.message_modulus
       \/ pbs_params.ciphertext_modulus # wopbs_params.ciphertext_modulus
    THEN Err("mismatched moduli")
    ELSE IF pbs_params.encryption_key_choice # wopbs_params.encryption_key_choice
    THEN Err("mismatched encryption key choices")
    ELSE Ok(ShortintParameterSet(PBSAndWopbs(pbs_params, wopbs_params)))

try_new_pbs_and_wopbs_param_set(pbs_params, wopbs_params) ==
    IF \/ pbs_params.carry_modulus # wopbs_params.carry_modulus
       \/ pbs_params.message_modulus # wopbs_params.message_modulus
       \/ pbs_params.ciphertext_modulus # wopbs_params.ciphertext_modulus
       \/ pbs_params.encryption_key_choice # wopbs_params.encryption_key_choice
    THEN Err(IncompatibleMsg)
    ELSE Ok(ShortintParameterSet(PBSAndWopbs(pbs_params, wopbs_params)))

\* Variant of the projection that has no record for PBSAndWopbs.
pbs_parameters_none_for_both(self) ==
    CASE self.inner.tag = "PBSOnly" -> Some(self.inner.pbs)
      [] self.inner.tag = "WopbsOnly" -> None
      [] self.inner.tag = "PBSAndWopbs" -> None

pbs_parameters(self) ==
    CASE self.inner.tag = "PBSOnly" -> Some(self.inner.pbs)
      [] self.inner.tag = "WopbsOnly" -> None
      [] self.inner.tag = "PBSAndWopbs" -> Some(self.inner.pbs)

\* Variant of the projection that binds the wrong record of PBSAndWopbs.
wopbs_parameters_first_record(self) ==
    CASE self.inner.tag = "PBSOnly" -> None
      [] self.inner.tag = "WopbsOnly" -> Some(self.inner.wopbs)
      [] self.inner.tag = "PBSAndWopbs" -> Some(self.inner.pbs)

wopbs_parameters(self) ==
    CASE self.inner.tag = "PBSOnly" -> None
      [] self.inner.tag = "WopbsOnly" -> Some(self.inner.wopbs)
      [] self.inner.tag = "PBSAndWopbs" -> Some(self.inner.wopbs)

\* Variant of the accessors that reads the second record of PBSAndWopbs.
accessor_second_record(self, field) ==
    CASE self.inner.tag = "PBSOnly" -> self.inner.pbs[field]
      [] self.inner.tag = "WopbsOnly" -> self.inner.wopbs[field]
      [] self.inner.tag = "PBSAndWopbs" -> self.inner.wopbs[field]

\* The thirteen accessors lwe_dimension() .. encryption_key_choice(): each
\* matches on the variant and reads the field `field` of the record it binds.
accessor(self, field) ==
    CASE self.inner.tag = "PBSOnly" -> self.inner.pbs[field]
      [] self.inner.tag = "WopbsOnly" -> self.inner.wopbs[field]
      [] self.inner.tag = "PBSAndWopbs" -> self.inner.pbs[field]

\* Variant of the predicate that also holds for PBSAndWopbs.
pbs_only_or_both(self) == self.inner.tag \in {"PBSOnly", "PBSAndWopbs"}

pbs_only(self) == self.inner.tag = "PBSOnly"

wopbs_only(self) == self.inner.tag = "WopbsOnly"

pbs_and_wopbs(self) == self.inner.tag = "PBSAndWopbs"

\* impl From<PBSParameters>, From<WopbsParameters>, TryFrom<(PBSParameters, WopbsParameters)>
from_pbs(value) == new_pbs_param_set(value)
from_wopbs(value) == new_wopbs_param_set(value)
try_from(value) == try_new_pbs_and_wopbs_param_set(value[1], value[2])

\* #[derive(Serialize, Deserialize)] on ShortintParameterSet and its inner
\* enum: the enum is written as its variant index followed by the variant's
\* fields, and read back variant by variant with no further check.
VariantIndex(tag) ==
    CASE tag = "PBSOnly" -> 0
      [] tag = "WopbsOnly" -> 1
      [] tag = "PBSAndWopbs" -> 2

serialize(self) ==
    CASE self.inner.tag = "PBSOnly" ->
            <<VariantIndex(self.inner.tag), <<self.inner.pbs>> >>
      [] self.inner.tag = "WopbsOnly" ->
            <<VariantIndex(self.inner.tag), <<self.inner.wopbs>> >>
      [] self.inner.tag = "PBSAndWopbs" ->
            <<VariantIndex(self.inner.tag), <<self.inner.pbs, self.inner.wopbs>> >>

deserialize(data) ==
    CASE data[1] = 0 /\ Len(data[2]) = 1 -> Ok(ShortintParameterSet(PBSOnly(data[2][1])))
      [] data[1] = 1 /\ Len(data[2]) = 1 -> Ok(ShortintParameterSet(WopbsOnly(data[2][1])))
      [] data[1] = 2 /\ Len(data[2]) = 2 ->
            Ok(ShortintParameterSet(PBSAndWopbs(data[2][1], data[2][2])))
      [] OTHER -> Err("invalid data")

---------------------------------------------------------------------------
(* get_parameters_from_message_and_carry *)

\* Width of usize in the model (64 on the targets the crate supports; the
\* model keeps the same arithmetic at a width TLC can enumerate).
WordBits == 8

RECURSIVE Pow2(_)
Pow2(n) == IF n = 0 THEN 1 ELSE 2 * Pow2(n - 1)

UsizeMax == Pow2(WordBits) - 1
Usize == 0..UsizeMax

\* An f64 is kept as its integer part and whether a fractional part remains;
\* negative infinity is a value of its own.  Every usize of the model width
\* converts exactly.
NegInfinity == [kind |-> "neg_infinity"]
F64(int, frac) == [kind |-> "finite", int |-> int, frac |-> frac]

\* `x as f64`
as_f64(x) == F64(x, FALSE)

RECURSIVE FloorLog2(_)
FloorLog2(x) == IF x <= 1 THEN 0 ELSE 1 + FloorLog2(x \div 2)

\* f64::log2 of a non-negative integer-valued float: log2(0.0) is -inf, a
\* power of two gives its exponent exactly, anything else lies strictly
\* between two integers.
f64_log2(v) ==
    IF v.int = 0 THEN NegInfinity
    ELSE F64(FloorLog2(v.int), Pow2(FloorLog2(v.int)) # v.int)

\* Variant of f64::ceil that rounds toward zero.
f64_ceil_truncating(v) ==
    IF v.kind = "neg_infinity" THEN v
    ELSE F64(v.int, FALSE)

\* f64::ceil
f64_ceil(v) ==
    IF v.kind = "neg_infinity" THEN v
    ELSE F64(IF v.frac THEN v.int + 1 ELSE v.int, FALSE)

\* `v as usize`: the cast truncates and saturates, -inf becomes 0.
as_usize(v) ==
    IF v.kind = "neg_infinity" THEN 0
    ELSE IF v.int > UsizeMax THEN UsizeMax
    ELSE v.int

\* `1 << n` on usize.  A shift by the width or more overflows: with overflow
\* checks the program panics, without them the shift amount is taken modulo
\* the width.
shl_overflows(n) == n >= WordBits
wrapping_shl(a, n) == (a * Pow2(n % WordBits)) % Pow2(WordBits)

\* Lines 1014 and 1016: ceil(log2(space as f64)) as usize
ceil_log2(space) == as_usize(f64_ceil(f64_log2(as_f64(space))))

\* Variant of the loop that compares the message modulus only.
RECURSIVE scan_message_only(_, _, _, _, _)
scan_message_only(i, rm, rc, o, f) ==
    IF i > Len(ALL_PARAMETER_VEC) THEN [out |-> o, flag |-> f]
    ELSE IF ALL_PARAMETER_VEC[i].message_modulus = rm
         THEN [out |-> ALL_PARAMETER_VEC[i], flag |-> TRUE]
         ELSE scan_message_only(i + 1, rm, rc, o, f)

\* Variant of the loop that does not set `flag` on a match.
RECURSIVE scan_flag_not_set(_, _, _, _, _)
scan_flag_not_set(i, rm, rc, o, f) ==
    IF i > Len(ALL_PARAMETER_VEC) THEN [out |-> o, flag |-> f]
    ELSE IF /\ ALL_PARAMETER_VEC[i].message_modulus = rm
            /\ ALL_PARAMETER_VEC[i].carry_modulus = rc
         THEN [out |-> ALL_PARAMETER_VEC[i], flag |-> f]
         ELSE scan_flag_not_set(i + 1, rm, rc, o, f)

\* The for loop over ALL_PARAMETER_VEC with its break, from index i on,
\* entered with the current values o of `out` and f of `flag`.
RECURSIVE scan(_, _, _, _, _)
scan(i, rm, rc, o, f) ==
    IF i > Len(ALL_PARAMETER_VEC) THEN [out |-> o, flag |-> f]
    ELSE IF /\ ALL_PARAMETER_VEC[i].message_modulus = rm
            /\ ALL_PARAMETER_VEC[i].carry_modulus = rc
         THEN [out |-> ALL_PARAMETER_VEC[i], flag |-> TRUE]
         ELSE scan(i + 1, rm, rc, o, f)

\* The line println! writes when no parameter set was found.
warning(rm, rc) ==
    <<"### WARNING: NO PARAMETERS FOUND for msg_space = ", rm,
      " and carry_space = ", rc, " ### ">>

---------------------------------------------------------------------------
(* Arguments the callers pass *)

\* PBSParameters a caller passes: presets of the catalog.
PbsInputs ==
    { PARAM_MESSAGE_2_CARRY_2, PARAM_MESSAGE_1_CARRY_1,
      PARAM_SMALL_MESSAGE_2_CARRY_2, PARAM_MESSAGE_2_CARRY_1 }

\* A CiphertextModulus other than the native one.
custom_modulus == "2^32"

\* WopbsParameters a caller passes.  The thirteen fields the handle reads are
\* kept.  The nine fields that the constructor does not compare are either
\* those of PARAM_MESSAGE_2_CARRY_2 or values no PbsInputs record has.
WopbsOwnFields ==
    [ lwe_dimension |-> 953,
      glwe_dimension |-> 4,
      polynomial_size |-> 4096,
      lwe_modular_std_dev |-> "0.00000014742441118914234",
      glwe_modular_std_dev |-> "0.00000000000000000021684043449710",
      pbs_base_log |-> 15,
      pbs_level |-> 2,
      ks_base_log |-> 6,
      ks_level |-> 2,
      message_modulus |-> 4,
      carry_modulus |-> 4,
      ciphertext_modulus |-> new_native,
      encryption_key_choice |-> Big ]

WopbsInputs ==
    { [base EXCEPT !.message_modulus = mm, !.carry_modulus = cm,
                   !.ciphertext_modulus = q, !.encryption_key_choice = k] :
        base \in {PARAM_MESSAGE_2_CARRY_2, WopbsOwnFields},
        mm \in {2, 4}, cm \in {2, 4},
        q \in {new_native, custom_modulus}, k \in EncryptionKeyChoice }

\* Serialized data a caller passes to the derived Deserialize: the encoding
\* of any value of the enum's shape, and data with an unknown variant index.
SerializedInputs ==
    { serialize(new_pbs_param_set(p)) : p \in PbsInputs }
    \cup { serialize(new_wopbs_param_set(w)) : w \in WopbsInputs }
    \cup { serialize(ShortintParameterSet(PBSAndWopbs(p, w))) :
             p \in PbsInputs, w \in WopbsInputs }
    \cup { <<3, <<>> >> }

NoHandle == [inner |-> [tag |-> "NoHandle"]]

Call(op, args, result) == [op |-> op, args |-> args, result |-> result]

---------------------------------------------------------------------------
(* Spec: the handle API and the key-choice conversion *)

ResolverIdle ==
    /\ pc = "idle"
    /\ overflow_checks = FALSE
    /\ msg_space = 0
    /\ carry_space = 0
    /\ rescaled_message_space = 0
    /\ rescaled_carry_space = 0
    /\ out = PARAM_MESSAGE_2_CARRY_2
    /\ flag = FALSE
    /\ stdout = <<>>

NoCalls ==
    /\ handle = NoHandle
    /\ built_by = "none"
    /\ built_from = <<>>
    /\ last = Call("none", <<>>, None)

\* No earlier resolver call is remembered and no concurrent caller runs.
NoEarlier == [none |-> TRUE]

NoCallers ==
    /\ earlier = NoEarlier
    /\ threads = <<>>

Init == NoCalls /\ ResolverIdle /\ NoCallers

\* A constructor that cannot fail returned h.
Built(op, args, h) ==
    /\ handle' = h
    /\ built_by' = op
    /\ built_from' = args
    /\ last' = Call(op, args, h)
    /\ UNCHANGED rvars
    /\ UNCHANGED cvars

\* A constructor that can fail returned r: the call yields the new handle on
\* Ok and no handle on Err.
TryBuilt(op, args, r) ==
    /\ last' = Call(op, args, r)
    /\ IF r.ok
       THEN /\ handle' = r.val
            /\ built_by' = op
            /\ built_from' = args
       ELSE /\ handle' = NoHandle
            /\ built_by' = "none"
            /\ built_from' = <<>>
    /\ UNCHANGED rvars
    /\ UNCHANGED cvars

\* A call that reads the handle returned r.
Read(op, args, r) ==
    /\ handle # NoHandle
    /\ last' = Call(op, args, r)
    /\ UNCHANGED <<handle, built_by, built_from>>
    /\ UNCHANGED rvars
    /\ UNCHANGED cvars

NewPbsParamSet ==
    \E p \in PbsInputs : Built("new_pbs_param_set", <<p>>, new_pbs_param_set(p))

NewWopbsParamSet ==
    \E w \in WopbsInputs : Built("new_wopbs_param_set", <<w>>, new_wopbs_param_set(w))

TryNewPbsAndWopbsParamSet ==
    \E p \in PbsInputs, w \in WopbsInputs :
        TryBuilt("try_new_pbs_and_wopbs_param_set", <<p, w>>,
                 try_new_pbs_and_wopbs_param_set(p, w))

FromPbs ==
    \E p \in PbsInputs : Built("from_pbs", <<p>>, from_pbs(p))

FromWopbs ==
    \E w \in WopbsInputs : Built("from_wopbs", <<w>>, from_wopbs(w))

TryFrom ==
    \E p \in PbsInputs, w \in WopbsInputs :
        TryBuilt("try_from", <<p, w>>, try_from(<<p, w>>))

\* #[derive(Copy, Clone)]: the copy is field for field the handle copied, so
\* what is recorded about how the handle was built stays.
Clone ==
    /\ handle # NoHandle
    /\ handle' = ShortintParameterSet(handle.inner)
    /\ last' = Call("clone", <<>>, handle')
    /\ UNCHANGED <<built_by, built_from>>
    /\ UNCHANGED rvars
    /\ UNCHANGED cvars

Deserialize ==
    \E data \in SerializedInputs :
        TryBuilt("deserialize", <<data>>, deserialize(data))

CallPbsParameters == Read("pbs_parameters", <<>>, pbs_parameters(handle))

CallWopbsParameters == Read("wopbs_parameters", <<>>, wopbs_parameters(handle))

CallAccessor == \E field \in FieldNames : Read("accessor", <<field>>, accessor(handle, field))

CallPbsOnly == Read("pbs_only", <<>>, pbs_only(handle))

CallWopbsOnly == Read("wopbs_only", <<>>, wopbs_only(handle))

CallPbsAndWopbs == Read("pbs_and_wopbs", <<>>, pbs_and_wopbs(handle))

\* PBSOrder::from(value)
PbsOrderFromKeyChoice ==
    /\ \E value \in EncryptionKeyChoice :
          last' = Call("pbs_order_from", <<value>>, PBSOrderFrom(value))
    /\ UNCHANGED <<handle, built_by, built_from>>
    /\ UNCHANGED rvars
    /\ UNCHANGED cvars

Next ==
    \/ NewPbsParamSet
    \/ NewWopbsParamSet
    \/ TryNewPbsAndWopbsParamSet
    \/ FromPbs
    \/ FromWopbs
    \/ TryFrom
    \/ Clone
    \/ Deserialize
    \/ CallPbsParameters
    \/ CallWopbsParameters
    \/ CallAccessor
    \/ CallPbsOnly
    \/ CallWopbsOnly
    \/ CallPbsAndWopbs
    \/ PbsOrderFromKeyChoice

Spec == Init /\ [][Next]_vars

---------------------------------------------------------------------------
(* SpecResolver: one call of get_parameters_from_message_and_carry *)

InitResolver ==
    /\ NoCalls
    /\ NoCallers
    /\ pc = "entry"
    /\ overflow_checks \in BOOLEAN
    /\ msg_space \in Usize
    /\ carry_space \in Usize
    /\ rescaled_message_space = 0
    /\ rescaled_carry_space = 0
    /\ out = PARAM_MESSAGE_2_CARRY_2
    /\ flag = FALSE
    /\ stdout = <<>>

\* Variant of the rescaling step in which `out` and `flag` keep the values the
\* previous call left (statics instead of initialised locals).
Rescale_keeps_out_and_flag ==
    /\ pc = "entry"
    /\ UNCHANGED <<out, flag>>
    /\ LET m == ceil_log2(msg_space)
           c == ceil_log2(carry_space)
       IN  IF overflow_checks /\ shl_overflows(m)
           THEN /\ pc' = "panicked"
                /\ rescaled_message_space' = m
                /\ UNCHANGED rescaled_carry_space
           ELSE IF overflow_checks /\ shl_overflows(c)
           THEN /\ pc' = "panicked"
                /\ rescaled_message_space' = wrapping_shl(1, m)
                /\ rescaled_carry_space' = c
           ELSE /\ pc' = "scan"
                /\ rescaled_message_space' = wrapping_shl(1, m)
                /\ rescaled_carry_space' = wrapping_shl(1, c)
    /\ UNCHANGED <<overflow_checks, msg_space, carry_space, stdout>>
    /\ UNCHANGED hvars
    /\ UNCHANGED cvars

\* Lines 1012-1017: the initial `out` and `flag` and the two rescalings.  The
\* shift of line 1015 is evaluated before line 1016.
Rescale ==
    /\ pc = "entry"
    /\ out' = PARAM_MESSAGE_2_CARRY_2
    /\ flag' = FALSE
    /\ LET m == ceil_log2(msg_space)
           c == ceil_log2(carry_space)
       IN  IF overflow_checks /\ shl_overflows(m)
           THEN /\ pc' = "panicked"
                /\ rescaled_message_space' = m
                /\ UNCHANGED rescaled_carry_space
           ELSE IF overflow_checks /\ shl_overflows(c)
           THEN /\ pc' = "panicked"
                /\ rescaled_message_space' = wrapping_shl(1, m)
                /\ rescaled_carry_space' = c
           ELSE /\ pc' = "scan"
                /\ rescaled_message_space' = wrapping_shl(1, m)
                /\ rescaled_carry_space' = wrapping_shl(1, c)
    /\ UNCHANGED <<overflow_checks, msg_space, carry_space, stdout>>
    /\ UNCHANGED hvars
    /\ UNCHANGED cvars

\* Lines 1019-1027
Scan ==
    /\ pc = "scan"
    /\ LET r == scan(1, rescaled_message_space, rescaled_carry_space, out, flag)
       IN  /\ out' = r.out
           /\ flag' = r.flag
    /\ pc' = "report"
    /\ UNCHANGED <<overflow_checks, msg_space, carry_space, rescaled_message_space,
                   rescaled_carry_space, stdout>>
    /\ UNCHANGED hvars
    /\ UNCHANGED cvars

\* Lines 1028-1034
Report ==
    /\ pc = "report"
    /\ stdout' = IF ~flag
                 THEN Append(stdout, warning(rescaled_message_space, rescaled_carry_space))
                 ELSE stdout
    /\ pc' = "returned"
    /\ UNCHANGED <<overflow_checks, msg_space, carry_space, rescaled_message_space,
                   rescaled_carry_space, out, flag>>
    /\ UNCHANGED hvars
    /\ UNCHANGED cvars

NextResolver == Rescale \/ Scan \/ Report

SpecResolver == InitResolver /\ [][NextResolver]_vars


---------------------------------------------------------------------------
(* SpecPresets: the named parameter sets, each wrapped in a handle and read *)

\* The name of a parameter set constant: PARAM_MESSAGE_x_CARRY_y, or
\* PARAM_SMALL_MESSAGE_x_CARRY_y when small.
PresetName(small, x, y) == [small |-> small, x |-> x, y |-> y]

\* The names of the constants the module defines.
PresetNames ==
    { PresetName(FALSE, 1, 0),
      PresetName(FALSE, 1, 1),
      PresetName(FALSE, 2, 0),
      PresetName(FALSE, 1, 2),
      PresetName(FALSE, 2, 1),
      PresetName(FALSE, 3, 0),
      PresetName(FALSE, 1, 3),
      PresetName(FALSE, 2, 2),
      PresetName(FALSE, 3, 1),
      PresetName(FALSE, 4, 0),
      PresetName(FALSE, 1, 4),
      PresetName(FALSE, 2, 3),
      PresetName(FALSE, 3, 2),
      PresetName(FALSE, 4, 1),
      PresetName(FALSE, 5, 0),
      PresetName(FALSE, 1, 5),
      PresetName(FALSE, 2, 4),
      PresetName(FALSE, 3, 3),
      PresetName(FALSE, 4, 2),
      PresetName(FALSE, 5, 1),
      PresetName(FALSE, 6, 0),
      PresetName(FALSE, 1, 6),
      PresetName(FALSE, 2, 5),
      PresetName(FALSE, 3, 4),
      PresetName(FALSE, 4, 3),
      PresetName(FALSE, 5, 2),
      PresetName(FALSE, 6, 1),
      PresetName(FALSE, 7, 0),
      PresetName(FALSE, 1, 7),
      PresetName(FALSE, 2, 6),
      PresetName(FALSE, 3, 5),
      PresetName(FALSE, 4, 4),
      PresetName(FALSE, 5, 3),
      PresetName(FALSE, 6, 2),
      PresetName(FALSE, 7, 1),
      PresetName(FALSE, 8, 0),
      PresetName(TRUE, 1, 1),
      PresetName(TRUE, 2, 2),
      PresetName(TRUE, 3, 3),
      PresetName(TRUE, 4, 4) }

\* The constant of each name.
NamedPreset(n) ==
    CASE n = PresetName(FALSE, 1, 0) -> PARAM_MESSAGE_1_CARRY_0
      [] n = PresetName(FALSE, 1, 1) -> PARAM_MESSAGE_1_CARRY_1
      [] n = PresetName(FALSE, 2, 0) -> PARAM_MESSAGE_2_CARRY_0
      [] n = PresetName(FALSE, 1, 2) -> PARAM_MESSAGE_1_CARRY_2
      [] n = PresetName(FALSE, 2, 1) -> PARAM_MESSAGE_2_CARRY_1
      [] n = PresetName(FALSE, 3, 0) -> PARAM_MESSAGE_3_CARRY_0
      [] n = PresetName(FALSE, 1, 3) -> PARAM_MESSAGE_1_CARRY_3
      [] n = PresetName(FALSE, 2, 2) -> PARAM_MESSAGE_2_CARRY_2
      [] n = PresetName(FALSE, 3, 1) -> PARAM_MESSAGE_3_CARRY_1
      [] n = PresetName(FALSE, 4, 0) -> PARAM_MESSAGE_4_CARRY_0
      [] n = PresetName(FALSE, 1, 4) -> PARAM_MESSAGE_1_CARRY_4
      [] n = PresetName(FALSE, 2, 3) -> PARAM_MESSAGE_2_CARRY_3
      [] n = PresetName(FALSE, 3, 2) -> PARAM_MESSAGE_3_CARRY_2
      [] n = PresetName(FALSE, 4, 1) -> PARAM_MESSAGE_4_CARRY_1
      [] n = PresetName(FALSE, 5, 0) -> PARAM_MESSAGE_5_CARRY_0
      [] n = PresetName(FALSE, 1, 5) -> PARAM_MESSAGE_1_CARRY_5
      [] n = PresetName(FALSE, 2, 4) -> PARAM_MESSAGE_2_CARRY_4
      [] n = PresetName(FALSE, 3, 3) -> PARAM_MESSAGE_3_CARRY_3
      [] n = PresetName(FALSE, 4, 2) -> PARAM_MESSAGE_4_CARRY_2
      [] n = PresetName(FALSE, 5, 1) -> PARAM_MESSAGE_5_CARRY_1
      [] n = PresetName(FALSE, 6, 0) -> PARAM_MESSAGE_6_CARRY_0
      [] n = PresetName(FALSE, 1, 6) -> PARAM_MESSAGE_1_CARRY_6
      [] n = PresetName(FALSE, 2, 5) -> PARAM_MESSAGE_2_CARRY_5
      [] n = PresetName(FALSE, 3, 4) -> PARAM_MESSAGE_3_CARRY_4
      [] n = PresetName(FALSE, 4, 3) -> PARAM_MESSAGE_4_CARRY_3
      [] n = PresetName(FALSE, 5, 2) -> PARAM_MESSAGE_5_CARRY_2
      [] n = PresetName(FALSE, 6, 1) -> PARAM_MESSAGE_6_CARRY_1
      [] n = PresetName(FALSE, 7, 0) -> PARAM_MESSAGE_7_CARRY_0
      [] n = PresetName(FALSE, 1, 7) -> PARAM_MESSAGE_1_CARRY_7
      [] n = PresetName(FALSE, 2, 6) -> PARAM_MESSAGE_2_CARRY_6
      [] n = PresetName(FALSE, 3, 5) -> PARAM_MESSAGE_3_CARRY_5
      [] n = PresetName(FALSE, 4, 4) -> PARAM_MESSAGE_4_CARRY_4
      [] n = PresetName(FALSE, 5, 3) -> PARAM_MESSAGE_5_CARRY_3
      [] n = PresetName(FALSE, 6, 2) -> PARAM_MESSAGE_6_CARRY_2
      [] n = PresetName(FALSE, 7, 1) -> PARAM_MESSAGE_7_CARRY_1
      [] n = PresetName(FALSE, 8, 0) -> PARAM_MESSAGE_8_CARRY_0
      [] n = PresetName(TRUE, 1, 1) -> PARAM_SMALL_MESSAGE_1_CARRY_1
      [] n = PresetName(TRUE, 2, 2) -> PARAM_SMALL_MESSAGE_2_CARRY_2
      [] n = PresetName(TRUE, 3, 3) -> PARAM_SMALL_MESSAGE_3_CARRY_3
      [] n = PresetName(TRUE, 4, 4) -> PARAM_SMALL_MESSAGE_4_CARRY_4

\* A caller names a constant and wraps it.
SelectPreset ==
    \E n \in PresetNames : Built("preset", <<n>>, new_pbs_param_set(NamedPreset(n)))

NextPresets == SelectPreset \/ CallAccessor \/ CallPbsParameters

SpecPresets == Init /\ [][NextPresets]_vars

---------------------------------------------------------------------------
(* SpecRepeat: resolver calls one after the other, handle calls in between *)

\* The spaces the repeated calls request: 1 has no preset, 7 is rescaled to
\* 8, which has presets, 200 is above half the range of the model's usize.
RepeatSpaces == {1, 7, 200}

InitRepeat ==
    /\ NoCalls
    /\ NoCallers
    /\ pc = "entry"
    /\ overflow_checks \in BOOLEAN
    /\ msg_space \in RepeatSpaces
    /\ carry_space \in RepeatSpaces
    /\ rescaled_message_space = 0
    /\ rescaled_carry_space = 0
    /\ out = PARAM_MESSAGE_2_CARRY_2
    /\ flag = FALSE
    /\ stdout = <<>>

\* What a completed call was asked and what it gave.
Completed ==
    [ msg_space |-> msg_space, carry_space |-> carry_space, out |-> out,
      flag |-> flag, stdout |-> stdout ]

\* The call has returned and the caller calls again.  The completed call is
\* remembered, or the one remembered before it is kept.  The locals of the
\* new call hold whatever the previous call left until they are initialised.
CallAgain ==
    /\ pc = "returned"
    /\ \E m \in RepeatSpaces, c \in RepeatSpaces :
          /\ msg_space' = m
          /\ carry_space' = c
    /\ \/ earlier' = Completed
       \/ earlier # NoEarlier /\ earlier' = earlier
    /\ pc' = "entry"
    /\ stdout' = <<>>
    /\ UNCHANGED <<overflow_checks, rescaled_message_space, rescaled_carry_space,
                   out, flag, threads>>
    /\ UNCHANGED hvars

NextRepeat ==
    \/ Rescale
    \/ Scan
    \/ Report
    \/ CallAgain
    \/ (pc = "returned" /\ NewPbsParamSet)
    \/ (pc = "returned" /\ CallAccessor)

SpecRepeat == InitRepeat /\ [][NextRepeat]_vars

---------------------------------------------------------------------------
(* SpecThreads: concurrent callers on one handle and the catalog *)

\* Number of concurrent callers.
NumThreads == 2

Threads == 1..NumThreads

\* The requests the concurrent resolver calls make.
ThreadRequests == { <<7, 2>>, <<1, 1>>, <<200, 2>> }

\* A caller about to run the resolver: its arguments and its locals.
ResolveCall(m, c) ==
    [ pc |-> "entry", op |-> "resolve", msg_space |-> m, carry_space |-> c,
      rescaled_message_space |-> 0, rescaled_carry_space |-> 0,
      out |-> PARAM_MESSAGE_2_CARRY_2, flag |-> FALSE ]

\* A caller about to read the shared handle through `&self`.
ReadCall(op, args) == [pc |-> "call", op |-> op, args |-> args]

ReadCalls ==
    { ReadCall("accessor", <<f>>) : f \in FieldNames }
    \cup { ReadCall(op, <<>>) :
             op \in {"pbs_parameters", "wopbs_parameters", "pbs_only", "wopbs_only",
                     "pbs_and_wopbs"} }

ThreadCalls ==
    { ResolveCall(req[1], req[2]) : req \in ThreadRequests } \cup ReadCalls

\* What the read `call` returns on the handle h.
read_result(h, call) ==
    CASE call.op = "accessor" -> accessor(h, call.args[1])
      [] call.op = "pbs_parameters" -> pbs_parameters(h)
      [] call.op = "wopbs_parameters" -> wopbs_parameters(h)
      [] call.op = "pbs_only" -> pbs_only(h)
      [] call.op = "wopbs_only" -> wopbs_only(h)
      [] call.op = "pbs_and_wopbs" -> pbs_and_wopbs(h)

\* Variant of write_locals in which the locals of the resolver are shared by
\* all callers (statics instead of `let mut` locals).
write_locals_shared(th, t, loc) ==
    [ u \in DOMAIN th |->
        IF u = t THEN loc
        ELSE IF th[u].op = "resolve"
        THEN [ th[u] EXCEPT !.rescaled_message_space = loc.rescaled_message_space,
                            !.rescaled_carry_space = loc.rescaled_carry_space,
                            !.out = loc.out,
                            !.flag = loc.flag ]
        ELSE th[u] ]

\* The `let mut` locals of a call live in the frame of the calling thread:
\* caller t writes its own locals loc and nobody else's.
write_locals(th, t, loc) == [th EXCEPT ![t] = loc]

InitThreads ==
    /\ \E p \in {PARAM_MESSAGE_2_CARRY_2}, w \in {WopbsOwnFields} :
          \/ /\ handle = new_pbs_param_set(p)
             /\ built_by = "new_pbs_param_set"
             /\ built_from = <<p>>
          \/ /\ handle = new_wopbs_param_set(w)
             /\ built_by = "new_wopbs_param_set"
             /\ built_from = <<w>>
          \/ /\ try_new_pbs_and_wopbs_param_set(p, w).ok
             /\ handle = try_new_pbs_and_wopbs_param_set(p, w).val
             /\ built_by = "try_new_pbs_and_wopbs_param_set"
             /\ built_from = <<p, w>>
    /\ last = Call("none", <<>>, None)
    /\ pc = "idle"
    /\ overflow_checks \in BOOLEAN
    /\ msg_space = 0
    /\ carry_space = 0
    /\ rescaled_message_space = 0
    /\ rescaled_carry_space = 0
    /\ out = PARAM_MESSAGE_2_CARRY_2
    /\ flag = FALSE
    /\ stdout = <<>>
    /\ earlier = NoEarlier
    /\ threads \in [Threads -> ThreadCalls]

\* What the steps of the callers leave alone.
ThreadFrame ==
    /\ UNCHANGED hvars
    /\ UNCHANGED <<pc, overflow_checks, msg_space, carry_space,
                   rescaled_message_space, rescaled_carry_space, out, flag, earlier>>

\* Lines 1012-1017 run by caller t.
ThreadRescale(t) ==
    LET me == threads[t] IN
    /\ me.op = "resolve"
    /\ me.pc = "entry"
    /\ LET m == ceil_log2(me.msg_space)
           c == ceil_log2(me.carry_space)
           init == [me EXCEPT !.out = PARAM_MESSAGE_2_CARRY_2, !.flag = FALSE]
       IN  threads' =
             IF overflow_checks /\ shl_overflows(m)
             THEN write_locals(threads, t,
                    [init EXCEPT !.pc = "panicked", !.rescaled_message_space = m])
             ELSE IF overflow_checks /\ shl_overflows(c)
             THEN write_locals(threads, t,
                    [init EXCEPT !.pc = "panicked",
                                 !.rescaled_message_space = wrapping_shl(1, m),
                                 !.rescaled_carry_space = c])
             ELSE write_locals(threads, t,
                    [init EXCEPT !.pc = "scan",
                                 !.rescaled_message_space = wrapping_shl(1, m),
                                 !.rescaled_carry_space = wrapping_shl(1, c)])
    /\ UNCHANGED stdout
    /\ ThreadFrame

\* Lines 1019-1027 run by caller t.
ThreadScan(t) ==
    LET me == threads[t] IN
    /\ me.op = "resolve"
    /\ me.pc = "scan"
    /\ LET r == scan(1, me.rescaled_message_space, me.rescaled_carry_space,
                     me.out, me.flag)
       IN  threads' = write_locals(threads, t,
                        [me EXCEPT !.pc = "report", !.out = r.out, !.flag = r.flag])
    /\ UNCHANGED stdout
    /\ ThreadFrame

\* Lines 1028-1034 run by caller t; println! writes its line to the
\* process's stdout under the stdout lock.
ThreadReport(t) ==
    LET me == threads[t] IN
    /\ me.op = "resolve"
    /\ me.pc = "report"
    /\ stdout' = IF ~me.flag
                 THEN Append(stdout, warning(me.rescaled_message_space,
                                             me.rescaled_carry_space))
                 ELSE stdout
    /\ threads' = write_locals(threads, t, [me EXCEPT !.pc = "returned"])
    /\ ThreadFrame

\* An accessor, projection or predicate run by caller t on the shared handle.
ThreadRead(t) ==
    LET me == threads[t] IN
    /\ me.op # "resolve"
    /\ me.pc = "call"
    /\ threads' = [threads EXCEPT ![t] =
                     [ pc |-> "returned", op |-> me.op, args |-> me.args,
                       ret |-> read_result(handle, me) ]]
    /\ UNCHANGED stdout
    /\ ThreadFrame

NextThreads ==
    \E t \in Threads :
        \/ ThreadRescale(t)
        \/ ThreadScan(t)
        \/ ThreadReport(t)
        \/ ThreadRead(t)

SpecThreads == InitThreads /\ [][NextThreads]_vars

---------------------------------------------------------------------------
(* SpecNew: one call of PBSParameters::new *)

\* The arguments of PBSParameters::new in the order of its signature.
ArgNames ==
    << "lwe_dimension", "glwe_dimension", "polynomial_size", "lwe_modular_std_dev",
       "glwe_modular_std_dev", "pbs_base_log", "pbs_level", "ks_base_log",
       "ks_level", "message_modulus", "carry_modulus", "ciphertext_modulus",
       "encryption_key_choice" >>

\* Variant of PBSParameters::new in which the struct literal, which lists
\* ks_level before ks_base_log, fills the fields by position.
new_ks_exchanged(lwe_dimension, glwe_dimension, polynomial_size, lwe_modular_std_dev, glwe_modular_std_dev, pbs_base_log, pbs_level, ks_base_log, ks_level, message_modulus, carry_modulus, ciphertext_modulus, encryption_key_choice) ==
    [ lwe_dimension |-> lwe_dimension,
      glwe_dimension |-> glwe_dimension,
      polynomial_size |-> polynomial_size,
      lwe_modular_std_dev |-> lwe_modular_std_dev,
      glwe_modular_std_dev |-> glwe_modular_std_dev,
      pbs_base_log |-> pbs_base_log,
      pbs_level |-> pbs_level,
      ks_base_log |-> ks_level,
      ks_level |-> ks_base_log,
      message_modulus |-> message_modulus,
      carry_modulus |-> carry_modulus,
      ciphertext_modulus |-> ciphertext_modulus,
      encryption_key_choice |-> encryption_key_choice ]

\* PBSParameters::new: the struct literal uses the field-init shorthand, so
\* each field takes the argument of its own name whatever the order in which
\* the literal lists them (ks_level comes before ks_base_log there).
new(lwe_dimension, glwe_dimension, polynomial_size, lwe_modular_std_dev, glwe_modular_std_dev, pbs_base_log, pbs_level, ks_base_log, ks_level, message_modulus, carry_modulus, ciphertext_modulus, encryption_key_choice) ==
    [ lwe_dimension |-> lwe_dimension,
      glwe_dimension |-> glwe_dimension,
      polynomial_size |-> polynomial_size,
      lwe_modular_std_dev |-> lwe_modular_std_dev,
      glwe_modular_std_dev |-> glwe_modular_std_dev,
      pbs_base_log |-> pbs_base_log,
      pbs_level |-> pbs_level,
      ks_level |-> ks_level,
      ks_base_log |-> ks_base_log,
      message_modulus |-> message_modulus,
      carry_modulus |-> carry_modulus,
      ciphertext_modulus |-> ciphertext_modulus,
      encryption_key_choice |-> encryption_key_choice ]

\* The values each argument is drawn from.  The two decomposition base logs
\* and the two level counts share the value 5, so an exchange between an
\* equal pair and between a different pair are both among the calls.
NewArgValues ==
    [ lwe_dimension |-> {742, 0},
      glwe_dimension |-> {1, 2},
      polynomial_size |-> {2048, 512},
      lwe_modular_std_dev |-> {"0.000007069849454709433", "0.0"},
      glwe_modular_std_dev |-> {"0.00000000000000029403601535432533", "0.0"},
      pbs_base_log |-> {23, 5},
      pbs_level |-> {1, 5},
      ks_base_log |-> {3, 5},
      ks_level |-> {5, 6},
      message_modulus |-> {4, 0},
      carry_modulus |-> {4, 1},
      ciphertext_modulus |-> {new_native, custom_modulus},
      encryption_key_choice |-> EncryptionKeyChoice ]

\* A call of PBSParameters::new; the function checks nothing and returns the
\* record.
CallNew ==
    /\ last.op = "none"
    /\ \E lwe_dimension \in NewArgValues.lwe_dimension,
          glwe_dimension \in NewArgValues.glwe_dimension,
          polynomial_size \in NewArgValues.polynomial_size,
          lwe_modular_std_dev \in NewArgValues.lwe_modular_std_dev,
          glwe_modular_std_dev \in NewArgValues.glwe_modular_std_dev,
          pbs_base_log \in NewArgValues.pbs_base_log,
          pbs_level \in NewArgValues.pbs_level,
          ks_base_log \in NewArgValues.ks_base_log,
          ks_level \in NewArgValues.ks_level,
          message_modulus \in NewArgValues.message_modulus,
          carry_modulus \in NewArgValues.carry_modulus,
          ciphertext_modulus \in NewArgValues.ciphertext_modulus,
          encryption_key_choice \in NewArgValues.encryption_key_choice :
            last' = Call("new",
                         << lwe_dimension, glwe_dimension, polynomial_size,
                            lwe_modular_std_dev, glwe_modular_std_dev, pbs_base_log,
                            pbs_level, ks_base_log, ks_level, message_modulus,
                            carry_modulus, ciphertext_modulus, encryption_key_choice >>,
                         new(lwe_dimension, glwe_dimension, polynomial_size,
                             lwe_modular_std_dev, glwe_modular_std_dev, pbs_base_log,
                             pbs_level, ks_base_log, ks_level, message_modulus,
                             carry_modulus, ciphertext_modulus, encryption_key_choice))
    /\ UNCHANGED <<handle, built_by, built_from>>
    /\ UNCHANGED rvars
    /\ UNCHANGED cvars

\* The record PBSParameters::new returned is wrapped into a handle.
WrapNew ==
    /\ last.op = "new"
    /\ Built("new_pbs_param_set", <<last.result>>, new_pbs_param_set(last.result))

NextNew == CallNew \/ WrapNew

SpecNew == Init /\ [][NextNew]_vars

---------------------------------------------------------------------------
(* Properties *)

CombineOps == {"try_new_pbs_and_wopbs_param_set", "try_from"}

\* The four fields the validated constructor compares.
SharedFields ==
    {"message_modulus", "carry_modulus", "ciphertext_modulus", "encryption_key_choice"}

SharedFieldsEqual(p, w) == \A f \in SharedFields : p[f] = w[f]

ModuliFields == {"message_modulus", "carry_modulus", "ciphertext_modulus"}

\* c is a call of the validated constructor that returned Err.
FailedCombine(c) == c.op \in CombineOps /\ ~c.result.ok

\* The class of fields in which the two records of a combining call differ.
MismatchClass(c) ==
    LET moduli == \E f \in ModuliFields : c.args[1][f] # c.args[2][f]
        key == c.args[1].encryption_key_choice # c.args[2].encryption_key_choice
    IN  CASE moduli /\ ~key -> "moduli"
          [] ~moduli /\ key -> "key_choice"
          [] moduli /\ key -> "moduli and key_choice"
          [] OTHER -> "none"

\* C1: the validated constructor (and TryFrom) returns Ok exactly when the
\* four shared fields of the two records are pairwise equal; the Ok value is
\* the PBSAndWopbs handle over the two records; on Err no handle exists.  A
\* difference in any of the other nine fields does not reject.
C1_CombineOkIffSharedEqual ==
    last.op \in CombineOps =>
        LET p == last.args[1]
            w == last.args[2]
        IN  /\ last.result.ok <=> SharedFieldsEqual(p, w)
            /\ last.result.ok =>
                  /\ last.result.val = ShortintParameterSet(PBSAndWopbs(p, w))
                  /\ handle = last.result.val
            /\ ~last.result.ok =>
                  /\ DOMAIN last.result = {"ok", "err"}
                  /\ handle = NoHandle

\* C1 witness: a combining call succeeded on records that differ in every
\* field the constructor does not compare.
C1_Witness ==
    /\ last.op = "try_new_pbs_and_wopbs_param_set"
    /\ last.result.ok
    /\ \A f \in FieldNames \ SharedFields : last.args[1][f] # last.args[2][f]

\* C2 (as claimed): whatever operations produced it, a PBSAndWopbs handle
\* has inner records with pairwise equal shared fields.
C2_BothAlwaysCoherent ==
    handle.inner.tag = "PBSAndWopbs" =>
        SharedFieldsEqual(handle.inner.pbs, handle.inner.wopbs)

\* C3 (as claimed): the error of a failed combining call names the class of
\* the mismatch, so the error of a call whose records differ only in moduli
\* differs from the error of a call whose records differ only in key choice.
C3_ErrorNamesMismatchClass ==
    [][ ( /\ FailedCombine(last) /\ MismatchClass(last) = "moduli"
          /\ FailedCombine(last') /\ MismatchClass(last') = "key_choice" )
        => last'.result.err # last.result.err ]_vars

\* C3 (amended): every failed combining call returns the one fixed message
\* that lists all four candidate fields, whatever the fields that differ.
C3_SingleErrorMessage ==
    FailedCombine(last) => last.result.err = IncompatibleMsg

\* C3 witness: a combining call failed on records that differ only in the
\* key choice.
C3_Witness ==
    /\ FailedCombine(last)
    /\ MismatchClass(last) = "key_choice"
    /\ last.result.err = IncompatibleMsg

\* C4 (as claimed): on a PBSAndWopbs handle that the validated constructor
\* returned, each of the thirteen fields is equal in the two inner records.
C4_AllFieldsEqualInBoth ==
    (built_by \in CombineOps /\ pbs_and_wopbs(handle)) =>
        \A f \in FieldNames : handle.inner.pbs[f] = handle.inner.wopbs[f]

\* C4 (amended): on a PBSAndWopbs handle that the validated constructor
\* returned, the four shared fields are equal in the two inner records, so
\* their accessors return the value of either record; every accessor returns
\* the field of the PBSParameters record.
C4_SharedEqualOthersFromPbs ==
    (built_by \in CombineOps /\ pbs_and_wopbs(handle)) =>
        /\ \A f \in SharedFields : handle.inner.pbs[f] = handle.inner.wopbs[f]
        /\ last.op = "accessor" =>
              /\ last.result = handle.inner.pbs[last.args[1]]
              /\ last.args[1] \in SharedFields =>
                    last.result = handle.inner.wopbs[last.args[1]]

\* C4 witness: an accessor of a field the constructor does not compare was
\* called on a combined handle whose records differ in that field.
C4_Witness ==
    /\ built_by \in CombineOps
    /\ pbs_and_wopbs(handle)
    /\ last.op = "accessor"
    /\ last.args[1] = "lwe_dimension"
    /\ handle.inner.pbs.lwe_dimension # handle.inner.wopbs.lwe_dimension
    /\ last.result = handle.inner.pbs.lwe_dimension

\* C5 (as claimed): the conversion yields one of the two orders, Big gives
\* bootstrap-then-keyswitch and Small gives keyswitch-then-bootstrap, as the
\* doc comment of EncryptionKeyChoice describes.
C5_KeyChoiceOrder ==
    last.op = "pbs_order_from" =>
        /\ last.result \in {BootstrapKeyswitch, KeyswitchBootstrap}
        /\ last.args[1] = Big => last.result = BootstrapKeyswitch
        /\ last.args[1] = Small => last.result = KeyswitchBootstrap
        /\ last.result = DocumentedOrder(last.args[1])

\* C6: on the handle a successful combining call returned, pbs_parameters()
\* is Some of the first argument and wopbs_parameters() is Some of the second
\* argument, field for field.
C6_ProjectionsReturnInputs ==
    built_by \in CombineOps =>
        /\ last.op = "pbs_parameters" =>
              /\ last.result.some
              /\ \A f \in FieldNames : last.result.val[f] = built_from[1][f]
        /\ last.op = "wopbs_parameters" =>
              /\ last.result.some
              /\ \A f \in FieldNames : last.result.val[f] = built_from[2][f]

\* C6 witness: wopbs_parameters() was called on a combined handle whose two
\* records differ.
C6_Witness ==
    /\ built_by \in CombineOps
    /\ last.op = "wopbs_parameters"
    /\ last.result = Some(built_from[2])
    /\ built_from[1] # built_from[2]

\* Entry i of the catalog has the rescaled moduli.
Matches(i) ==
    /\ ALL_PARAMETER_VEC[i].message_modulus = rescaled_message_space
    /\ ALL_PARAMETER_VEC[i].carry_modulus = rescaled_carry_space

Found == \E i \in 1..Len(ALL_PARAMETER_VEC) : Matches(i)

\* C7: when some entry of ALL_PARAMETER_VEC has the rescaled moduli, the
\* resolver returns the first such entry in catalog order; the request
\* (7, 2) returns PARAM_MESSAGE_3_CARRY_1.
C7_FirstMatchReturned ==
    pc = "returned" =>
        /\ Found =>
              \E i \in 1..Len(ALL_PARAMETER_VEC) :
                  /\ Matches(i)
                  /\ \A j \in 1..(i - 1) : ~Matches(j)
                  /\ out = ALL_PARAMETER_VEC[i]
        /\ (msg_space = 7 /\ carry_space = 2) => out = PARAM_MESSAGE_3_CARRY_1

\* C7 witness: the call for (7, 2) returned PARAM_MESSAGE_3_CARRY_1.
C7_Witness ==
    /\ pc = "returned"
    /\ msg_space = 7
    /\ carry_space = 2
    /\ rescaled_message_space = 8
    /\ rescaled_carry_space = 2
    /\ out = PARAM_MESSAGE_3_CARRY_1

\* v is the smallest power of two that is at least r.
SmallestPowerOfTwoAtLeast(v, r) ==
    /\ \E k \in 0..WordBits : v = Pow2(k)
    /\ v >= r
    /\ v > 1 => v \div 2 < r

\* C8 (as claimed): for every requested space r >= 1 the rescaled value is
\* the smallest power of two that is at least r, for the message space and
\* for the carry space.
C8_RescaledIsNextPowerOfTwo ==
    pc \in {"scan", "report", "returned"} =>
        /\ msg_space >= 1 =>
              SmallestPowerOfTwoAtLeast(rescaled_message_space, msg_space)
        /\ carry_space >= 1 =>
              SmallestPowerOfTwoAtLeast(rescaled_carry_space, carry_space)

\* C9: a call that returns with no catalog entry matching the rescaled pair
\* printed exactly one warning, which names the rescaled pair, and returns
\* PARAM_MESSAGE_2_CARRY_2 (moduli 4 and 4); a call that returns with a
\* matching entry printed nothing.
C9_FallbackWithOneDiagnostic ==
    pc = "returned" =>
        /\ ~Found =>
              /\ out = PARAM_MESSAGE_2_CARRY_2
              /\ out.message_modulus = 4
              /\ out.carry_modulus = 4
              /\ stdout = <<warning(rescaled_message_space, rescaled_carry_space)>>
        /\ Found => stdout = <<>>

\* C9 witness: the request (100, 3) is rescaled to (128, 4), which no entry
\* has; the call printed one line and returned the fallback.
C9_Witness ==
    /\ pc = "returned"
    /\ msg_space = 100
    /\ carry_space = 3
    /\ ~Found
    /\ Len(stdout) = 1
    /\ out = PARAM_MESSAGE_2_CARRY_2

\* C10 (as claimed): for every pair of machine words the call never aborts.
C10_ResolverNeverAborts == pc # "panicked"


\* C11 (as claimed): for a request with msg_space <= 1 and any carry space
\* the message space is rescaled to 1, no catalog entry matches, and the call
\* returns the fallback preset after printing the warning.
C11_SmallMessageSpaceFallsBack ==
    (msg_space <= 1 /\ pc # "entry") =>
        /\ pc # "panicked"
        /\ rescaled_message_space = 1
        /\ ~Found
        /\ pc = "returned" =>
              /\ out = PARAM_MESSAGE_2_CARRY_2
              /\ stdout = <<warning(rescaled_message_space, rescaled_carry_space)>>

\* C12: on any handle exactly one of pbs_only(), wopbs_only() and
\* pbs_and_wopbs() is true, each for its own variant.
C12_ExactlyOnePredicate ==
    handle # NoHandle =>
        /\ Cardinality({q \in {"pbs_only", "wopbs_only", "pbs_and_wopbs"} :
                          CASE q = "pbs_only" -> pbs_only(handle)
                            [] q = "wopbs_only" -> wopbs_only(handle)
                            [] q = "pbs_and_wopbs" -> pbs_and_wopbs(handle)}) = 1
        /\ last.op = "pbs_only" => (last.result <=> handle.inner.tag = "PBSOnly")
        /\ last.op = "wopbs_only" => (last.result <=> handle.inner.tag = "WopbsOnly")
        /\ last.op = "pbs_and_wopbs" => (last.result <=> handle.inner.tag = "PBSAndWopbs")

\* C12 witness: pbs_only() was called on a PBSAndWopbs handle and returned
\* false.
C12_Witness ==
    /\ handle.inner.tag = "PBSAndWopbs"
    /\ last.op = "pbs_only"
    /\ last.result = FALSE

\* C13: pbs_parameters() is Some exactly on PBSOnly and PBSAndWopbs handles,
\* wopbs_parameters() is Some exactly on WopbsOnly and PBSAndWopbs handles;
\* both are Some only on PBSAndWopbs and never both None.
C13_ProjectionsFollowVariant ==
    handle # NoHandle =>
        /\ pbs_parameters(handle).some <=>
              handle.inner.tag \in {"PBSOnly", "PBSAndWopbs"}
        /\ wopbs_parameters(handle).some <=>
              handle.inner.tag \in {"WopbsOnly", "PBSAndWopbs"}
        /\ (pbs_parameters(handle).some /\ wopbs_parameters(handle).some) <=>
              handle.inner.tag = "PBSAndWopbs"
        /\ pbs_parameters(handle).some \/ wopbs_parameters(handle).some
        /\ last.op = "pbs_parameters" =>
              (last.result.some <=> handle.inner.tag \in {"PBSOnly", "PBSAndWopbs"})
        /\ last.op = "wopbs_parameters" =>
              (last.result.some <=> handle.inner.tag \in {"WopbsOnly", "PBSAndWopbs"})

\* C13 witness: pbs_parameters() was called on a PBSAndWopbs handle and
\* returned Some.
C13_Witness ==
    /\ handle.inner.tag = "PBSAndWopbs"
    /\ last.op = "pbs_parameters"
    /\ last.result.some

\* C14: on the handle new_pbs_param_set(p) or From<PBSParameters> returned,
\* pbs_parameters() is Some of a record equal to p field for field and every
\* accessor returns the field of p of its name.
C14_PbsRoundTrip ==
    built_by \in {"new_pbs_param_set", "from_pbs"} =>
        /\ last.op = "pbs_parameters" =>
              /\ last.result.some
              /\ \A f \in FieldNames : last.result.val[f] = built_from[1][f]
        /\ last.op = "accessor" => last.result = built_from[1][last.args[1]]

\* C14 witness: pbs_parameters() returned the record that new_pbs_param_set
\* was given.
C14_Witness ==
    /\ built_by = "new_pbs_param_set"
    /\ last.op = "pbs_parameters"
    /\ last.result = Some(built_from[1])

\* C19: on a PBSAndWopbs handle the validated constructor returned from
\* records that differ in a field it does not compare, the accessor of that
\* field returns the value of the PBSParameters record and not the value of
\* the WopbsParameters record.
C19_UncomparedFieldFromPbs ==
    ( /\ built_by \in CombineOps
      /\ last.op = "accessor"
      /\ last.args[1] \notin SharedFields
      /\ built_from[1][last.args[1]] # built_from[2][last.args[1]] )
    => /\ last.result = built_from[1][last.args[1]]
       /\ last.result # built_from[2][last.args[1]]

\* C19 witness: ks_level() was called on a combined handle whose records
\* have different ks_level.
C19_Witness ==
    /\ built_by \in CombineOps
    /\ last.op = "accessor"
    /\ last.args[1] = "ks_level"
    /\ built_from[1].ks_level # built_from[2].ks_level
    /\ last.result = built_from[1].ks_level

\* C20 (as claimed): for a request with carry_space <= 1 and any message
\* space the carry space is rescaled to 1, no entry of the scanned catalog
\* matches, and the call returns PARAM_MESSAGE_2_CARRY_2 after printing the
\* warning; the request (5, 1) does not return PARAM_MESSAGE_3_CARRY_0.
C20_SmallCarrySpaceFallsBack ==
    (carry_space <= 1 /\ pc # "entry") =>
        /\ pc # "panicked"
        /\ pc \in {"scan", "report", "returned"} =>
              /\ rescaled_carry_space = 1
              /\ ~Found
        /\ pc = "returned" =>
              /\ out = PARAM_MESSAGE_2_CARRY_2
              /\ stdout = <<warning(rescaled_message_space, rescaled_carry_space)>>
              /\ (msg_space = 5) => out # PARAM_MESSAGE_3_CARRY_0


\* C15: the constant named PARAM_MESSAGE_X_CARRY_Y or
\* PARAM_SMALL_MESSAGE_X_CARRY_Y has message_modulus 2^X and carry_modulus
\* 2^Y, which its handle's accessors return; both are positive powers of two.
C15_PresetNomenclature ==
    built_by = "preset" =>
        LET n == built_from[1]
            p == handle.inner.pbs
        IN  /\ p.message_modulus = Pow2(n.x)
            /\ p.carry_modulus = Pow2(n.y)
            /\ p.message_modulus > 0 /\ p.carry_modulus > 0
            /\ (last.op = "accessor" /\ last.args[1] = "message_modulus") =>
                  last.result = Pow2(n.x)
            /\ (last.op = "accessor" /\ last.args[1] = "carry_modulus") =>
                  last.result = Pow2(n.y)

\* C15 witness: carry_modulus() of PARAM_SMALL_MESSAGE_4_CARRY_4 returned 16.
C15_Witness ==
    /\ built_by = "preset"
    /\ built_from[1] = PresetName(TRUE, 4, 4)
    /\ last.op = "accessor"
    /\ last.args[1] = "carry_modulus"
    /\ last.result = 16

\* C16 (as claimed): every parameter set constant of the module is an
\* element of ALL_PARAMETER_VEC.
C16_AllPresetsInCatalog ==
    built_by = "preset" =>
        \E i \in 1..Len(ALL_PARAMETER_VEC) : ALL_PARAMETER_VEC[i] = handle.inner.pbs


\* C17: a resolver call that returns after an earlier call with the same
\* arguments, with any resolver, constructor and accessor calls in between,
\* returns the same record, takes the same path (match or fallback) and
\* prints the same.
C17_ResolverDeterministic ==
    ( /\ pc = "returned"
      /\ earlier # NoEarlier
      /\ earlier.msg_space = msg_space
      /\ earlier.carry_space = carry_space )
    => /\ out = earlier.out
       /\ flag = earlier.flag
       /\ stdout = earlier.stdout

\* C17 witness: the request (1, 1) fell back a second time, as in an earlier
\* call, after a handle was built and read in between.
C17_Witness ==
    /\ pc = "returned"
    /\ earlier # NoEarlier
    /\ earlier.msg_space = 1 /\ msg_space = 1
    /\ earlier.carry_space = 1 /\ carry_space = 1
    /\ last.op = "accessor"
    /\ out = PARAM_MESSAGE_2_CARRY_2
    /\ ~flag
    /\ Len(stdout) = 1


\* What a resolver call with arguments m and c does when it runs alone:
\* whether it panics, and the `out` and `flag` it ends with otherwise.
AlonePanics(m, c) ==
    overflow_checks /\ (shl_overflows(ceil_log2(m)) \/ shl_overflows(ceil_log2(c)))

AloneResolve(m, c) ==
    scan(1, wrapping_shl(1, ceil_log2(m)), wrapping_shl(1, ceil_log2(c)),
         PARAM_MESSAGE_2_CARRY_2, FALSE)

\* With the callers' state th, the handle h and the output so: every call
\* that has ended gave what it gives alone, and the output holds one warning
\* for each returned resolver call that falls back alone.
ReturnsAsAlone(th, h, so) ==
    /\ \A t \in DOMAIN th :
          /\ (th[t].pc = "panicked") =>
                AlonePanics(th[t].msg_space, th[t].carry_space)
          /\ (th[t].pc = "returned" /\ th[t].op = "resolve") =>
                /\ ~AlonePanics(th[t].msg_space, th[t].carry_space)
                /\ th[t].out = AloneResolve(th[t].msg_space, th[t].carry_space).out
                /\ th[t].flag = AloneResolve(th[t].msg_space, th[t].carry_space).flag
                /\ ~th[t].flag =>
                      \E i \in 1..Len(so) :
                          so[i] = warning(wrapping_shl(1, ceil_log2(th[t].msg_space)),
                                          wrapping_shl(1, ceil_log2(th[t].carry_space)))
          /\ (th[t].pc = "returned" /\ th[t].op # "resolve") =>
                th[t].ret = read_result(h, th[t])
    /\ Len(so) = Cardinality({ t \in DOMAIN th :
                                 /\ th[t].pc = "returned"
                                 /\ th[t].op = "resolve"
                                 /\ ~AloneResolve(th[t].msg_space, th[t].carry_space).flag })

\* C18: under any interleaving of the steps of concurrent accessor,
\* projection, predicate and resolver calls, no step changes the handle (the
\* catalog is a constant), and every call that ends gives what it gives when
\* run alone.
C18_ConcurrentCallsAsAlone ==
    [][ /\ handle' = handle
        /\ ReturnsAsAlone(threads', handle', stdout') ]_vars

\* C18 witness: on a PBSAndWopbs handle, one caller's resolver call for
\* (7, 2) returned PARAM_MESSAGE_3_CARRY_1 and another's for (1, 1) returned
\* the fallback with its warning.
C18_Witness ==
    /\ threads # <<>>
    /\ handle.inner.tag = "PBSAndWopbs"
    /\ \E t, u \in DOMAIN threads :
          /\ threads[t].op = "resolve" /\ threads[t].pc = "returned"
          /\ threads[t].msg_space = 7 /\ threads[t].out = PARAM_MESSAGE_3_CARRY_1
          /\ threads[u].op = "resolve" /\ threads[u].pc = "returned"
          /\ threads[u].msg_space = 1 /\ threads[u].out = PARAM_MESSAGE_2_CARRY_2
    /\ Len(stdout) = 1


\* C21: the record the resolver returns is an entry of ALL_PARAMETER_VEC; it
\* is PARAM_MESSAGE_2_CARRY_2 exactly when the rescaled pair is (4, 4) or no
\* entry matches the rescaled pair, and these two cases give the same record
\* and differ by the warning only.
C21_ReturnedIsCatalogEntry ==
    pc = "returned" =>
        /\ \E i \in 1..Len(ALL_PARAMETER_VEC) : out = ALL_PARAMETER_VEC[i]
        /\ (out = PARAM_MESSAGE_2_CARRY_2) <=>
              \/ rescaled_message_space = 4 /\ rescaled_carry_space = 4
              \/ ~Found
        /\ (rescaled_message_space = 4 /\ rescaled_carry_space = 4) =>
              /\ Found
              /\ stdout = <<>>
        /\ ~Found =>
              stdout = <<warning(rescaled_message_space, rescaled_carry_space)>>

\* C21 witness: the call for (3, 4), rescaled to (4, 4), returned
\* PARAM_MESSAGE_2_CARRY_2 as a genuine match, without the warning.
C21_Witness ==
    /\ pc = "returned"
    /\ msg_space = 3
    /\ carry_space = 4
    /\ rescaled_message_space = 4
    /\ rescaled_carry_space = 4
    /\ flag
    /\ out = PARAM_MESSAGE_2_CARRY_2
    /\ stdout = <<>>


\* C22: when the resolver returns without printing the warning, the returned
\* record has room for the request: its message modulus is at least
\* msg_space and its carry modulus at least carry_space, and each modulus is
\* less than twice the requested space when that space is at least 1; a
\* returned record with less room than requested comes with the warning.
C22_NoWarningMeansEnoughCapacity ==
    pc = "returned" =>
        /\ stdout = <<>> =>
              /\ out.message_modulus >= msg_space
              /\ out.carry_modulus >= carry_space
              /\ msg_space >= 1 => out.message_modulus < 2 * msg_space
              /\ carry_space >= 1 => out.carry_modulus < 2 * carry_space
        /\ (out.message_modulus < msg_space \/ out.carry_modulus < carry_space) =>
              stdout = <<warning(rescaled_message_space, rescaled_carry_space)>>

\* C22 witness: the call for (5, 3) returned PARAM_MESSAGE_3_CARRY_2, moduli
\* 8 and 4, without the warning.
C22_Witness ==
    /\ pc = "returned"
    /\ msg_space = 5
    /\ carry_space = 3
    /\ out = PARAM_MESSAGE_3_CARRY_2
    /\ out.message_modulus = 8
    /\ out.carry_modulus = 4
    /\ stdout = <<>>


\* C23: PBSParameters::new stores each of its thirteen arguments in the
\* field of the same name: the returned record has the thirteen fields and
\* no other, each equal to the argument of that name; ks_base_log and
\* ks_level, and pbs_base_log and pbs_level, are not exchanged.
C23_NewStoresEachArgument ==
    last.op = "new" =>
        /\ DOMAIN last.result = FieldNames
        /\ Len(last.args) = Len(ArgNames)
        /\ \A i \in 1..Len(ArgNames) : last.result[ArgNames[i]] = last.args[i]
        /\ last.result.ks_base_log = last.args[8]
        /\ last.result.ks_level = last.args[9]
        /\ last.result.pbs_base_log = last.args[6]
        /\ last.result.pbs_level = last.args[7]

\* C23 witness: a call in which the key-switch base log and level differ, and
\* the bootstrap base log and level differ, returned its record.
C23_Witness ==
    /\ last.op = "new"
    /\ last.args[8] = 3
    /\ last.args[9] = 5
    /\ last.args[6] = 23
    /\ last.args[7] = 1
    /\ last.result.ks_base_log = 3
    /\ last.result.ks_level = 5

===========================================================================
